---- MODULE Spec2Model ----
(***************************************************************************)
(* Document-management backend (ritik322/task-backend).                    *)
(*                                                                         *)
(* api/utils.py  : extract_text_from_file                                  *)
(* api/views.py  : DocumentViewSet (get_queryset, perform_create,          *)
(*                 perform_update, perform_destroy, ask_ai)                *)
(*                                                                         *)
(* Strings are sequences of runs [c |-> token, n |-> repetitions].  A      *)
(* token is either one character class ("a" printable, " " blank, "ctl" a  *)
(* non-printable control character, "u80" the character U+0080) or one of  *)
(* the fixed phrases of the source, kept whole.  Every white-space         *)
(* character of a message that a strip() can reach is a run of its own.    *)
(***************************************************************************)
EXTENDS Integers, Sequences, FiniteSets, TLC

\* ------------------------------------------------------------------ bounds
MaxRuns == 2          \* runs in the body of an uploaded file
MaxParts == 2         \* sub-parts of an AI response
MaxDocs == 2          \* documents ever created (ids are never reused)
MaxRequests == 2      \* requests issued in one behaviour
NumUsers == 2         \* authenticated users
NumReq == 2           \* request contexts
MaxConcRequests == 3  \* requests issued when several may be in progress

\* --------------------------------------------------------- program constants
SampleLen == 500          \* possible_text[:500]
NonPrintableLimit == 50   \* ... < 50

\* ------------------------------------------------------------------ strings
Run(c, n) == [c |-> c, n |-> n]
P(s) == Run(s, 1)

WhiteSpace == {" ", "\n", "\r", "\t"}

IsSpace(r) == r.c \in WhiteSpace

RECURSIVE LStrip(_)
LStrip(t) == IF t = <<>> THEN <<>>
             ELSE IF IsSpace(Head(t)) THEN LStrip(Tail(t)) ELSE t

RECURSIVE RStrip(_)
RStrip(t) == IF t = <<>> THEN <<>>
             ELSE IF IsSpace(t[Len(t)]) THEN RStrip(SubSeq(t, 1, Len(t) - 1)) ELSE t

\* str.strip()
StripLeftOnly(t) == LStrip(t)
Strip(t) == RStrip(LStrip(t))

\* str.startswith(p)
StartsWith(t, p) == Len(p) <= Len(t) /\ SubSeq(t, 1, Len(p)) = p

Min(a, b) == IF a < b THEN a ELSE b

\* char.isprintable(): the blank is printable, control characters are not
IsPrintable(c) == c \notin {"ctl", "u80", "\n", "\r", "\t"}

\* sum(1 for char in t[:limit] if not char.isprintable() and char not in '\n\r\t')
RECURSIVE NonPrintableCount(_, _)
NonPrintableCount(t, limit) ==
    IF t = <<>> \/ limit = 0 THEN 0
    ELSE LET k == Min(Head(t).n, limit)
         IN  (IF ~IsPrintable(Head(t).c) /\ Head(t).c \notin {"\n", "\r", "\t"} THEN k ELSE 0)
             + NonPrintableCount(Tail(t), limit - k)

\* bytes.decode('utf-8', errors='ignore'): bytes that are no UTF-8 are dropped
DecodeUtf8Ignore(b) == SelectSeq(b, LAMBDA r : r.c # "x80")

\* bytes.decode('latin-1', errors='ignore'): every byte is a character
DecodeLatin1(b) == [i \in 1..Len(b) |-> IF b[i].c = "x80" THEN Run("u80", b[i].n) ELSE b[i]]

\* ----------------------------------------------------- the fixed messages
NoTextMsg == <<P("No text content could be extracted from the document.")>>
UnsupportedPrefix == <<P("Unsupported file type")>>
UnsupportedMsg ==
    UnsupportedPrefix \o <<P(" "), P("or content not recognized as plain text.")>>
UnsupportedDecodeMsg(mime) ==
    UnsupportedPrefix \o <<P(" "), P("("), P(mime), P(")."), P(" "), P("Could not decode as text.")>>
ErrorPrefix == <<P("An error occurred during text extraction")>>
ErrorMsg(detail) == ErrorPrefix \o <<P(":"), P(" ")>> \o detail
DocPrefix == <<P("Could not reliably extract text from .doc file")>>
DocFailMsg(detail) == DocPrefix \o <<P(":"), P(" ")>> \o detail \o <<P("\n")>>

\* ------------------------------------------------------ uploaded file objects
NoName == "<None>"        \* file_obj.name is None
NoMime == "<no type>"     \* guess_type found nothing / no content_type
PdfMime == "application/pdf"
DocxMime == "application/vnd.openxmlformats-officedocument.wordprocessingml.document"
DocMime == "application/msword"
TxtMime == "text/plain"
OtherMime == "application/octet-stream"

Exts == {"pdf", "docx", "doc", "txt", "bin"}
CTypes == {NoMime, PdfMime, DocxMime, DocMime, TxtMime, OtherMime}
ByteClasses == {"a", " ", "ctl", "x80"}
RunLens == {1, NonPrintableLimit - 1, SampleLen}
Runs == [c : ByteClasses, n : RunLens]
BodiesUpTo(n) == UNION {[1..k -> Runs] : k \in 0..n}

\* what the environment can do to the file object: nothing, seek() raising
\* before the try (line 13), the reader or read() raising inside it, seek()
\* raising in the finally block (line 66)
Faults == {"none", "seek", "read", "reseek"}
\* str(e) of the raised exception
Details == {<<>>, <<P("e"), P(" ")>>}

\* the file objects whose body has at most n runs
FilesUpTo(n) == {f \in [ext : Exts \cup {NoName}, ctype : CTypes, body : BodiesUpTo(n),
                        fault : Faults, detail : Details] :
                    f.fault # "read" => f.detail = <<>>}

\* mimetypes.guess_type(file_name)[0]
GuessType(ext) ==
    CASE ext = "pdf" -> PdfMime
      [] ext = "docx" -> DocxMime
      [] ext = "doc" -> DocMime
      [] ext = "txt" -> TxtMime
      [] OTHER -> NoMime

\* lines 17-21: the guessed type, else the declared content type
MimeOf(f) == IF GuessType(f.ext) # NoMime THEN GuessType(f.ext) ELSE f.ctype

\* the text of the units (pages, paragraphs) a parser finds in the body: a
\* unit of printable characters or blanks has that text, any other has none
UnitText(r) == IF r.c \in {"a", " "} THEN <<r>> ELSE <<>>

Returned(t, k) == [exc |-> FALSE, text |-> t, kind |-> k, detail |-> <<>>]
Raised(d) == [exc |-> TRUE, text |-> <<>>, kind |-> "error", detail |-> d]

\* lines 26-29: text += page_text + "\n" for every page that has text
RECURSIVE PdfText(_)
PdfText(b) ==
    IF b = <<>> THEN <<>>
    ELSE (IF UnitText(Head(b)) # <<>> THEN UnitText(Head(b)) \o <<P("\n")>> ELSE <<>>)
         \o PdfText(Tail(b))

\* lines 35-36: text += para.text + "\n" for every paragraph
RECURSIVE DocxText(_)
DocxText(b) ==
    IF b = <<>> THEN <<>>
    ELSE UnitText(Head(b)) \o <<P("\n")>> \o DocxText(Tail(b))

\* lines 25-29.  PdfReader raises on a stream that holds no PDF; a zero-byte
\* stream holds none.
PdfBranch(f) ==
    IF f.body = <<>> THEN Raised(<<P("Cannot read an empty file")>>)
    ELSE IF f.fault = "read" THEN Raised(f.detail)
    ELSE Returned(PdfText(f.body), "content")

\* lines 33-36.  docx.Document raises on a stream that is no zip archive; a
\* zero-byte stream is none.
DocxBranch(f) ==
    IF f.body = <<>> THEN Raised(<<P("File is not a zip file")>>)
    ELSE IF f.fault = "read" THEN Raised(f.detail)
    ELSE Returned(DocxText(f.body), "content")

\* lines 37-42
DocBranch(f) ==
    IF f.fault = "read" THEN Returned(DocFailMsg(f.detail), "docfail")
    ELSE Returned(DecodeLatin1(f.body), "content")

\* lines 43-44
TxtBranch(f) ==
    IF f.fault = "read" THEN Raised(f.detail)
    ELSE Returned(DecodeUtf8Ignore(f.body), "content")

\* line 50
LooksLikeText(t) == NonPrintableCount(t, SampleLen) < NonPrintableLimit

\* lines 45-55
FallbackBranch(f) ==
    IF f.fault = "read"
    THEN Returned(UnsupportedDecodeMsg(IF MimeOf(f) # NoMime THEN MimeOf(f) ELSE "unknown"),
                  "unsupported")
    ELSE IF LooksLikeText(DecodeUtf8Ignore(f.body))
         THEN Returned(DecodeUtf8Ignore(f.body), "content")
         ELSE Returned(UnsupportedMsg, "unsupported")

\* lines 24-55: which branch reads the file
BranchOf(f) ==
    IF MimeOf(f) = PdfMime \/ f.ext = "pdf" THEN "pdf"
    ELSE IF MimeOf(f) \in {DocxMime, DocMime} \/ f.ext \in {"docx", "doc"}
         THEN (IF f.ext = "docx" THEN "docx" ELSE "doc")
    ELSE IF MimeOf(f) = TxtMime \/ f.ext = "txt" THEN "txt"
    ELSE "fallback"

Branch(f) ==
    CASE BranchOf(f) = "pdf" -> PdfBranch(f)
      [] BranchOf(f) = "docx" -> DocxBranch(f)
      [] BranchOf(f) = "doc" -> DocBranch(f)
      [] BranchOf(f) = "txt" -> TxtBranch(f)
      [] OTHER -> FallbackBranch(f)

\* lines 57-58
EmptyCheckNone(b) == b
EmptyCheck(b) ==
    IF ~b.exc /\ Strip(b.text) = <<>> THEN Returned(NoTextMsg, "notext") ELSE b

\* lines 23-62: the try block and its handler
TryBlock(f) ==
    LET b == EmptyCheck(Branch(f))
    IN  IF b.exc THEN [raised |-> FALSE, text |-> ErrorMsg(b.detail), kind |-> "error"]
        ELSE [raised |-> FALSE, text |-> b.text, kind |-> b.kind]

Propagates == [raised |-> TRUE, text |-> <<>>, kind |-> "raised"]

\* extract_text_from_file(file_obj): [raised, text, kind]; kind tells what the
\* returned string is ("content", "notext", "unsupported", "docfail", "error")
extract_text_from_file(f) ==
    IF f.fault = "seek" THEN Propagates                  \* line 13
    ELSE IF f.ext = NoName THEN Propagates               \* line 17
    ELSE LET r == TryBlock(f)
         IN  IF f.fault = "reseek" THEN Propagates       \* line 66
             ELSE IF r.raised THEN r
             ELSE [r EXCEPT !.text = Strip(r.text)]      \* line 67

\* ------------------------------------------------ the AI service's response
NoAttr == "<no attribute>"          \* hasattr(...) is False
AnswerStrings == {<<>>, <<P(" ")>>, <<P("t")>>, <<P(" "), P("t")>>}
PartValues == {<<P(NoAttr)>>, <<>>, <<P(" ")>>, <<P("p")>>}
PartListsUpTo(n) == UNION {[1..k -> PartValues] : k \in 0..n}
BlockReasons == {"", "SAFETY"}        \* "" : no block (a falsy block_reason)
BlockMessages == {"", "blocked for safety"}
Feedbacks == [present : BOOLEAN, block_reason : BlockReasons,
              block_reason_message : BlockMessages]
\* the responses with at most n sub-parts
AIResponsesUpTo(n) ==
                  {a \in [has_text : BOOLEAN, text : AnswerStrings,
                       has_parts : BOOLEAN, parts : PartListsUpTo(n), feedback : Feedbacks] :
                   /\ ~a.has_text => a.text = <<>>
                   /\ ~a.has_parts => a.parts = <<>>
                   /\ ~a.feedback.present =>
                        /\ a.feedback.block_reason = ""
                        /\ a.feedback.block_reason_message = ""}

NoTextAnswer == <<P("The AI model did not return a text response.")>>
BlockedAnswer(fb) ==
    <<P("The AI model blocked the response. Reason:"), P(" "),
      P(IF fb.block_reason_message # "" THEN fb.block_reason_message ELSE fb.block_reason)>>

\* line 238: [part.text for part in ai_response.parts if hasattr(part, 'text')]
PartTexts(parts) == SelectSeq(parts, LAMBDA p : p # <<P(NoAttr)>>)

\* "".join(...)
RECURSIVE Join(_)
Join(ts) == IF ts = <<>> THEN <<>> ELSE Head(ts) \o Join(Tail(ts))

\* lines 234-240
DirectOrParts(a) ==
    IF a.has_text /\ a.text # <<>> THEN Strip(a.text)
    ELSE IF a.has_parts /\ PartTexts(a.parts) # <<>> THEN Strip(Join(PartTexts(a.parts)))
    ELSE NoTextAnswer

\* lines 234-244: the answer string ask_ai returns for a response
AnswerOf(a) ==
    IF DirectOrParts(a) = <<>> /\ a.feedback.present /\ a.feedback.block_reason # ""
    THEN BlockedAnswer(a.feedback)
    ELSE DirectOrParts(a)

\* ------------------------------------------------------ ask_ai's pre-checks
NoQuestion == <<P("<None>")>>       \* request.data has no 'question'
NotAString == <<P("<list>")>>       \* a truthy value that is no str
Questions == {NoQuestion, NotAString, <<>>, <<P(" ")>>, <<P(" "), P("q"), P(" ")>>}

\* line 186: not question or not isinstance(question, str) or not question.strip()
QuestionOk(q) == ~(q \in {NoQuestion, <<>>} \/ q = NotAString \/ Strip(q) = <<>>)

\* lines 190-196
unsuitable_text_messages ==
    { NoTextMsg, UnsupportedMsg, UnsupportedDecodeMsg("unknown"), ErrorPrefix, DocPrefix }

\* lines 197-199
UnsuitableNoPrefix(text) ==
    \/ text = <<>>
    \/ text \in unsuitable_text_messages
Unsuitable(text) ==
    \/ text = <<>>
    \/ text \in unsuitable_text_messages
    \/ \E p \in {ErrorPrefix, UnsupportedPrefix} : StartsWith(text, p)

QuestionError == "A non-empty 'question' string is required in the request body."
UnsuitableError == "Document content is not available or suitable for AI querying."
UnavailableError == "AI service is currently unavailable. Please contact support."
ProcessingError == "An error occurred while processing your question with the AI. Please try again later or contact support if the issue persists."

\* -------------------------------------------------------------------- state
VARIABLES
    docs,      \* Document table: id -> [user, file, extracted_text, kind]
    disk,      \* paths of the payloads present under MEDIA_ROOT
    nextId,    \* next primary key
    req,       \* request contexts: locals, position and response of each
    issued,    \* requests issued so far
    xin,       \* input of a direct call of a pure function
    xout,      \* its result
    workers    \* requests the server handles at the same time

vars == <<docs, disk, nextId, req, issued, xin, xout, workers>>

Users == 1..NumUsers
DocIds == 1..MaxDocs
Reqs == 1..NumReq

NoFile == [name |-> "", k |-> 0]      \* an empty FieldFile (falsy)
NoUpload == [ext |-> NoName, ctype |-> NoMime, body |-> <<>>, fault |-> "none",
             detail |-> <<>>]
NoInst == [user |-> 0, file |-> NoFile, extracted_text |-> <<>>, kind |-> "none"]
NoExtract == [raised |-> FALSE, text |-> <<>>, kind |-> "none"]

\* the uploads the views are driven with
Uploads ==
    {f \in [ext : {"txt", "doc"}, ctype : {NoMime}, body : {<<>>, <<Run("a", 1)>>},
            fault : {"none", "read", "seek"}, detail : Details] :
        /\ f.fault = "read" <=> f.detail # <<>>
        /\ f.fault = "seek" => (f.ext = "txt" /\ f.body # <<>>)}

IdleReq ==
    [op |-> "idle", pc |-> "idle", user |-> 0, doc |-> 0,
     inst |-> NoInst,               \* the model instance the request holds
     before |-> NoInst,             \* the record as get_object found it
     file_arg |-> "absent",         \* 'file' in validated_data: absent, clear, new
     upload |-> NoUpload,
     extracted |-> NoExtract,       \* what extract_text_from_file gave
     old_file_path |-> NoFile,
     text_to_save |-> <<>>,
     saved |-> FALSE,               \* the record was written
     deleted |-> FALSE,             \* the record was removed
     removes |-> <<>>,              \* os.remove calls: [path, saved, deleted, ok]
     ai_called |-> FALSE,           \* generate_content was invoked
     question |-> NoQuestion,
     ai_kind |-> "",                \* what the try block of ask_ai met
     ai_detail |-> <<>>,            \* str(e) of an exception of the AI client
     status |-> 0, error |-> "", extra |-> <<>>, answer |-> <<>>, listing |-> {}]

Running(r) == req[r].pc \notin {"idle", "done"}

RequestLimit == IF workers = 1 THEN MaxRequests ELSE MaxConcRequests

\* a request starts when fewer than `workers` requests are in progress (with
\* one worker: when no other is), in the first free context
CanStart(r) == /\ issued < RequestLimit
               /\ Cardinality({q \in Reqs : Running(q)}) < workers
               /\ ~Running(r)
               /\ \A q \in Reqs : q < r => Running(q)

\* lines 79-83: Document.objects.filter(user=self.request.user)
get_queryset_all(u) == DOMAIN docs
get_queryset(u) == {d \in DOMAIN docs : docs[d].user = u}

\* storage.get_available_name: the upload's own name when it is free, else
\* a variant of it that is
RECURSIVE FreshFrom(_, _)
FreshFrom(name, k) ==
    IF [name |-> name, k |-> k] \notin disk THEN [name |-> name, k |-> k]
    ELSE FreshFrom(name, k + 1)
FreshPath(name) == FreshFrom(name, 0)

\* request context r starts as q; the contexts of finished requests are dropped
Begin(r, q) == [p \in Reqs |-> IF p = r THEN q ELSE IF Running(p) THEN req[p] ELSE IdleReq]

TypeOK ==
    /\ DOMAIN docs \subseteq DocIds
    /\ nextId \in 1..(MaxDocs + 1)
    /\ issued \in 0..RequestLimit
    /\ workers \in 1..NumReq
    /\ \A r \in Reqs : req[r].status \in {0, 200, 201, 204, 400, 404, 500}

Init ==
    /\ docs = <<>>
    /\ disk = {}
    /\ nextId = 1
    /\ req = [r \in Reqs |-> IdleReq]
    /\ issued = 0
    /\ xin = [tag |-> "none"]
    /\ xout = [done |-> FALSE]
    /\ workers = 1

\* ---- perform_create (lines 92-111)
\* the whole handler: extraction, then serializer.save(user=..., extracted_text=...)
Create(r, u, f) ==
    /\ CanStart(r)
    /\ nextId <= MaxDocs
    /\ issued' = issued + 1
    /\ LET x == extract_text_from_file(f)
           start == [IdleReq EXCEPT !.op = "create", !.user = u, !.file_arg = "new",
                                    !.upload = f, !.extracted = x]
       IN  IF x.raised
           THEN /\ req' = Begin(r, [start EXCEPT !.pc = "done", !.status = 500])
                /\ UNCHANGED <<docs, disk, nextId>>
           ELSE LET path == FreshPath(f.ext)
                    rec == [user |-> u, file |-> path, extracted_text |-> x.text,
                            kind |-> x.kind]
                IN  /\ docs' = (nextId :> rec) @@ docs
                    /\ disk' = disk \cup {path}
                    /\ nextId' = nextId + 1
                    /\ req' = Begin(r,
                                 [start EXCEPT !.pc = "done", !.status = 201, !.doc = nextId,
                                               !.inst = rec, !.saved = TRUE,
                                               !.text_to_save = x.text])
    /\ UNCHANGED <<xin, xout, workers>>

\* ---- list and retrieve (ModelViewSet over get_queryset)
List(r, u) ==
    /\ CanStart(r)
    /\ issued' = issued + 1
    /\ req' = Begin(r,
                 [IdleReq EXCEPT !.op = "list", !.user = u, !.pc = "done", !.status = 200,
                                 !.listing = get_queryset(u)])
    /\ UNCHANGED <<docs, disk, nextId, xin, xout, workers>>

Retrieve(r, u, d) ==
    /\ CanStart(r)
    /\ issued' = issued + 1
    /\ req' = Begin(r,
                 IF d \in get_queryset(u)
                 THEN [IdleReq EXCEPT !.op = "retrieve", !.user = u, !.doc = d,
                                      !.pc = "done", !.status = 200, !.inst = docs[d],
                                      !.before = docs[d],
                                      !.listing = {d}]
                 ELSE [IdleReq EXCEPT !.op = "retrieve", !.user = u, !.doc = d,
                                      !.pc = "done", !.status = 404])
    /\ UNCHANGED <<docs, disk, nextId, xin, xout, workers>>

\* ---- perform_update (lines 113-153)
\* lines 125-133: extracted_text_to_save
TextToSaveKeepsOld(arg, x, inst) == IF arg = "new" THEN x.text ELSE inst.extracted_text
TextToSave(arg, x, inst) ==
    IF arg = "new" THEN x.text
    ELSE IF arg = "clear" THEN <<>>
    ELSE inst.extracted_text

\* lines 119-133, after get_object: the instance, its old path, the text to save
UpdateBegin(r, u, d, arg, f) ==
    /\ CanStart(r)
    /\ issued' = issued + 1
    /\ arg = "new" => f \in Uploads
    /\ arg # "new" => f = NoUpload
    /\ LET start == [IdleReq EXCEPT !.op = "update", !.user = u, !.doc = d,
                                    !.file_arg = arg, !.upload = f]
           x == IF arg = "new" THEN extract_text_from_file(f) ELSE NoExtract
       IN  req' = Begin(r,
              IF d \notin get_queryset(u)
              THEN [start EXCEPT !.pc = "done", !.status = 404]
              ELSE IF x.raised
              THEN [start EXCEPT !.pc = "done", !.status = 500, !.inst = docs[d],
                                 !.before = docs[d],
                                 !.old_file_path = docs[d].file, !.extracted = x]
              ELSE [start EXCEPT !.pc = "update_save", !.inst = docs[d],
                                 !.before = docs[d],
                                 !.old_file_path = docs[d].file, !.extracted = x,
                                 !.text_to_save = TextToSave(arg, x, docs[d])])
    /\ UNCHANGED <<docs, disk, nextId, xin, xout, workers>>

\* line 139: serializer.save(extracted_text=extracted_text_to_save) writes the
\* instance the request holds, with the new file stored under a free name
UpdateSave(r) ==
    /\ req[r].pc = "update_save"
    /\ LET q == req[r]
           path == IF q.file_arg = "new" THEN FreshPath(q.upload.ext)
                   ELSE IF q.file_arg = "clear" THEN NoFile
                   ELSE q.inst.file
           rec == [user |-> q.inst.user, file |-> path, extracted_text |-> q.text_to_save,
                   kind |-> IF q.file_arg = "new" THEN q.extracted.kind
                            ELSE IF q.file_arg = "clear" THEN "none"
                            ELSE q.inst.kind]
       IN  /\ docs' = (q.doc :> rec) @@ docs
           /\ disk' = IF q.file_arg = "new" THEN disk \cup {path} ELSE disk
           /\ req' = [req EXCEPT ![r] = [q EXCEPT !.pc = "update_cleanup", !.inst = rec,
                                                  !.saved = TRUE]]
    /\ UNCHANGED <<nextId, issued, xin, xout, workers>>

\* lines 142-149: whether the old payload is to be removed
ShouldRemoveAlways(q) == q.old_file_path # NoFile /\ q.old_file_path \in disk
ShouldRemove(q) ==
    /\ (q.file_arg # "absent" \/ (q.inst.file = NoFile /\ q.old_file_path # NoFile))
    /\ q.old_file_path # NoFile
    /\ ~(q.inst.file # NoFile /\ q.inst.file = q.old_file_path)
    /\ q.old_file_path \in disk

RemoveCall(q, path, ok) ==
    Append(q.removes, [path |-> path, saved |-> q.saved, deleted |-> q.deleted, ok |-> ok])

\* lines 142-153: os.remove(old_file_path), an OSError only logged
UpdateCleanup(r, ok) ==
    /\ req[r].pc = "update_cleanup"
    /\ LET q == req[r]
       IN  IF ShouldRemove(q)
           THEN /\ disk' = IF ok THEN disk \ {q.old_file_path} ELSE disk
                /\ req' = [req EXCEPT ![r] =
                             [q EXCEPT !.pc = "done", !.status = 200,
                                       !.removes = RemoveCall(q, q.old_file_path, ok)]]
           ELSE /\ ok
                /\ disk' = disk
                /\ req' = [req EXCEPT ![r] = [q EXCEPT !.pc = "done", !.status = 200]]
    /\ UNCHANGED <<docs, nextId, issued, xin, xout, workers>>

\* ---- perform_destroy (lines 156-173)
\* lines 161-166, after get_object: remember the path, delete the record
DestroyBegin(r, u, d) ==
    /\ CanStart(r)
    /\ issued' = issued + 1
    /\ LET start == [IdleReq EXCEPT !.op = "destroy", !.user = u, !.doc = d]
       IN  IF d \notin get_queryset(u)
           THEN /\ req' = Begin(r, [start EXCEPT !.pc = "done", !.status = 404])
                /\ docs' = docs
           ELSE /\ req' = Begin(r,
                             [start EXCEPT !.pc = "destroy_cleanup", !.inst = docs[d],
                                           !.before = docs[d],
                                           !.old_file_path = docs[d].file,
                                           !.deleted = TRUE])
                /\ docs' = [e \in DOMAIN docs \ {d} |-> docs[e]]
    /\ UNCHANGED <<disk, nextId, xin, xout, workers>>

\* lines 169-173: os.remove(file_path_to_delete), an OSError only logged
DestroyCleanupEscapes(r, ok) ==
    /\ req[r].pc = "destroy_cleanup"
    /\ LET q == req[r]
       IN  IF q.old_file_path # NoFile /\ q.old_file_path \in disk
           THEN /\ disk' = IF ok THEN disk \ {q.old_file_path} ELSE disk
                /\ req' = [req EXCEPT ![r] =
                             [q EXCEPT !.pc = "done", !.status = IF ok THEN 204 ELSE 500,
                                       !.removes = RemoveCall(q, q.old_file_path, ok)]]
           ELSE /\ ok
                /\ disk' = disk
                /\ req' = [req EXCEPT ![r] = [q EXCEPT !.pc = "done", !.status = 204]]
    /\ UNCHANGED <<docs, nextId, issued, xin, xout, workers>>
DestroyCleanup(r, ok) ==
    /\ req[r].pc = "destroy_cleanup"
    /\ LET q == req[r]
       IN  IF q.old_file_path # NoFile /\ q.old_file_path \in disk
           THEN /\ disk' = IF ok THEN disk \ {q.old_file_path} ELSE disk
                /\ req' = [req EXCEPT ![r] =
                             [q EXCEPT !.pc = "done", !.status = 204,
                                       !.removes = RemoveCall(q, q.old_file_path, ok)]]
           ELSE /\ ok
                /\ disk' = disk
                /\ req' = [req EXCEPT ![r] = [q EXCEPT !.pc = "done", !.status = 204]]
    /\ UNCHANGED <<docs, nextId, issued, xin, xout, workers>>

\* ---- ask_ai (lines 176-256)
\* what one request finds: no GEMINI_API_KEY in the environment, configure()
\* raising, generate_content() raising, reading the response raising, or a
\* response
AIDetails == {<<P("quota exceeded")>>}
NoAI == [has_text |-> FALSE, text |-> <<>>, has_parts |-> FALSE, parts |-> <<>>,
         feedback |-> [present |-> FALSE, block_reason |-> "", block_reason_message |-> ""]]
AISample == {a \in AIResponsesUpTo(0) :
                /\ a.text \in {<<>>, <<P(" "), P("t")>>}
                /\ a.has_text = (a.text # <<>>)
                /\ ~a.has_parts
                /\ ~a.feedback.present}
AIOutcomes ==
    {[kind |-> "response", detail |-> <<>>, resp |-> a] : a \in AISample}
    \cup {[kind |-> "no_key", detail |-> <<>>, resp |-> NoAI]}
    \cup [kind : {"configure_raises", "generate_raises", "read_raises"},
          detail : AIDetails, resp : {NoAI}]

\* lines 205-256: the try block, once both pre-checks have passed
AnswerLeaky(q, ai) ==
    LET t == [q EXCEPT !.pc = "done", !.ai_kind = ai.kind, !.ai_detail = ai.detail]
    IN  IF ai.kind = "no_key"
        THEN [t EXCEPT !.status = 500, !.error = UnavailableError]
        ELSE IF ai.kind = "configure_raises"
        THEN [t EXCEPT !.status = 500, !.error = ProcessingError, !.extra = ai.detail]
        ELSE IF ai.kind \in {"generate_raises", "read_raises"}
        THEN [t EXCEPT !.status = 500, !.error = ProcessingError, !.extra = ai.detail,
                       !.ai_called = TRUE]
        ELSE [t EXCEPT !.status = 200, !.answer = AnswerOf(ai.resp), !.ai_called = TRUE]
Answer(q, ai) ==
    LET t == [q EXCEPT !.pc = "done", !.ai_kind = ai.kind, !.ai_detail = ai.detail]
    IN  IF ai.kind = "no_key"
        THEN [t EXCEPT !.status = 500, !.error = UnavailableError]
        ELSE IF ai.kind = "configure_raises"
        THEN [t EXCEPT !.status = 500, !.error = ProcessingError]
        ELSE IF ai.kind \in {"generate_raises", "read_raises"}
        THEN [t EXCEPT !.status = 500, !.error = ProcessingError, !.ai_called = TRUE]
        ELSE [t EXCEPT !.status = 200, !.answer = AnswerOf(ai.resp), !.ai_called = TRUE]

\* lines 183-256: the response of ask_ai
AskResponse(start, ai) ==
    IF start.doc \notin get_queryset(start.user)
    THEN [start EXCEPT !.pc = "done", !.status = 404]
    ELSE LET q == [start EXCEPT !.inst = docs[start.doc], !.before = docs[start.doc]]
         IN  IF ~QuestionOk(q.question)
             THEN [q EXCEPT !.pc = "done", !.status = 400, !.error = QuestionError]
             ELSE IF Unsuitable(q.inst.extracted_text)
             THEN [q EXCEPT !.pc = "done", !.status = 400, !.error = UnsuitableError,
                            !.extra = q.inst.extracted_text]
             ELSE Answer(q, ai)

ask_ai(r, u, d, question, ai) ==
    /\ CanStart(r)
    /\ issued' = issued + 1
    /\ req' = Begin(r,
                 AskResponse([IdleReq EXCEPT !.op = "ask", !.user = u, !.doc = d,
                                             !.question = question], ai))
    /\ UNCHANGED <<docs, disk, nextId, xin, xout, workers>>

\* ---------------------------------------------------------- specifications
Next ==
    \/ \E r \in Reqs, u \in Users, f \in Uploads : Create(r, u, f)
    \/ \E r \in Reqs, u \in Users : List(r, u)
    \/ \E r \in Reqs, u \in Users, d \in DocIds : Retrieve(r, u, d)
    \/ \E r \in Reqs, u \in Users, d \in DocIds, arg \in {"absent", "clear", "new"},
          f \in Uploads \cup {NoUpload} : UpdateBegin(r, u, d, arg, f)
    \/ \E r \in Reqs : UpdateSave(r)
    \/ \E r \in Reqs, ok \in BOOLEAN : UpdateCleanup(r, ok)
    \/ \E r \in Reqs, u \in Users, d \in DocIds : DestroyBegin(r, u, d)
    \/ \E r \in Reqs, ok \in BOOLEAN : DestroyCleanup(r, ok)
    \/ \E r \in Reqs, u \in Users, d \in DocIds, q \in Questions, ai \in AIOutcomes :
          ask_ai(r, u, d, q, ai)

Spec == Init /\ [][Next]_vars

\* ---- the same views behind a server that handles several requests at once:
\* nothing in perform_update or perform_destroy locks the record, so the steps
\* of two requests interleave freely
ConcInit ==
    /\ docs = <<>>
    /\ disk = {}
    /\ nextId = 1
    /\ req = [r \in Reqs |-> IdleReq]
    /\ issued = 0
    /\ xin = [tag |-> "none"]
    /\ xout = [done |-> FALSE]
    /\ workers = NumReq

ConcNext ==
    \/ \E r \in Reqs, u \in Users, f \in Uploads : Create(r, u, f)
    \/ \E r \in Reqs, u \in Users, d \in DocIds, arg \in {"absent", "clear", "new"},
          f \in Uploads \cup {NoUpload} : UpdateBegin(r, u, d, arg, f)
    \/ \E r \in Reqs : UpdateSave(r)
    \/ \E r \in Reqs, ok \in BOOLEAN : UpdateCleanup(r, ok)
    \/ \E r \in Reqs, u \in Users, d \in DocIds : DestroyBegin(r, u, d)
    \/ \E r \in Reqs, ok \in BOOLEAN : DestroyCleanup(r, ok)

ConcSpec == ConcInit /\ [][ConcNext]_vars

\* Direct calls of the pure functions, over all their bounded inputs.
FnInputs(runs, parts) ==
    {[tag |-> "file", file |-> f, ai |-> NoAI] : f \in FilesUpTo(runs)}
    \cup {[tag |-> "ai", file |-> NoUpload, ai |-> a] : a \in AIResponsesUpTo(parts)}

FnInit ==
    /\ docs = <<>>
    /\ disk = {}
    /\ nextId = 1
    /\ req = [r \in Reqs |-> IdleReq]
    /\ issued = 0
    /\ xin \in FnInputs(MaxRuns, MaxParts)
    /\ xout = [done |-> FALSE]
    /\ workers = 1

RunExtract ==
    /\ xin.tag = "file"
    /\ ~xout.done
    /\ xout' = [done |-> TRUE, extract |-> extract_text_from_file(xin.file),
                answer |-> <<>>]
    /\ UNCHANGED <<docs, disk, nextId, req, issued, xin, workers>>

RunAnswer ==
    /\ xin.tag = "ai"
    /\ ~xout.done
    /\ xout' = [done |-> TRUE, extract |-> NoExtract, answer |-> AnswerOf(xin.ai)]
    /\ UNCHANGED <<docs, disk, nextId, req, issued, xin, workers>>

FnNext == RunExtract \/ RunAnswer

FnSpec == FnInit /\ [][FnNext]_vars

\* ================================================================== claims

Asked(r) == req[r].op = "ask" /\ req[r].pc = "done" /\ req[r].status # 404

\* the question is a string that is non-empty after trimming
UsableQuestion(q) == q \notin {NoQuestion, NotAString} /\ Strip(q) # <<>>

\* the text is non-empty, is none of the known placeholder/error strings and
\* starts with neither the extraction-error nor the unsupported-type prefix
SuitableText(t) ==
    /\ t # <<>>
    /\ t \notin unsuitable_text_messages
    /\ ~StartsWith(t, ErrorPrefix)
    /\ ~StartsWith(t, UnsupportedPrefix)

\* C1: ask_ai invokes the AI service only for a usable question on a document
\* whose extracted text is suitable; every other request on a document ends
\* with status 400 and no AI call.
C1_AiOnlyWhenUsable ==
    \A r \in Reqs :
        Asked(r) =>
            LET q == req[r]
                usable == UsableQuestion(q.question) /\ SuitableText(q.before.extracted_text)
            IN  /\ q.ai_called => usable
                /\ ~usable => (q.status = 400 /\ ~q.ai_called /\ q.ai_kind = "")

C1_Witness ==
    \E r \in Reqs :
        /\ Asked(r)
        /\ req[r].ai_called
        /\ req[r].status = 200
        /\ req[r].question = <<P(" "), P("q"), P(" ")>>

\* C2 (as claimed): a document whose stored text is a string that extraction
\* returned instead of content (placeholder, unsupported-type message, .doc
\* diagnostic, extraction-error string) is never queried against the AI.
C2_FailedExtractionNeverQueried ==
    \A r \in Reqs :
        (Asked(r) /\ req[r].before.kind \in {"notext", "unsupported", "docfail", "error"})
            => ~req[r].ai_called

\* C3 (as claimed): extract_text_from_file returns a string for every file
\* object and every failure underneath; no exception reaches the caller.
C3_NeverPropagates ==
    (xout.done /\ xin.tag = "file") => ~xout.extract.raised

Updated(r) == req[r].op = "update" /\ req[r].pc = "done" /\ req[r].status = 200

\* C4: an update that changed the record's file path while an old payload
\* existed calls os.remove on the old path exactly once, after the save (and a
\* successful call leaves the old payload gone); an update that left the path
\* unchanged, or had no old payload, removes nothing.
C4_OldPayloadReleasedOnce ==
    \A r \in Reqs :
        req[r].op = "update" =>
            LET q == req[r]
            IN  /\ \A i \in 1..Len(q.removes) : q.removes[i].saved
                /\ Updated(r) =>
                     IF q.inst.file # q.before.file /\ q.before.file # NoFile
                     THEN /\ Len(q.removes) = 1
                          /\ q.removes[1].path = q.before.file
                          /\ q.removes[1].ok => q.before.file \notin disk
                          /\ docs[q.doc].file = q.inst.file
                     ELSE /\ q.removes = <<>>
                          /\ q.before.file # NoFile => q.before.file \in disk

C4_Witness ==
    \E r \in Reqs :
        /\ Updated(r)
        /\ req[r].file_arg = "new"
        /\ Len(req[r].removes) = 1
        /\ req[r].removes[1].ok
        /\ req[r].before.file \notin disk
        /\ req[r].inst.file \in disk

\* C5: on delete the record is removed before any payload release is
\* attempted; a failed release leaves the record removed and the delete
\* still answers 204.
C5_DeleteThenRelease ==
    \A r \in Reqs :
        req[r].op = "destroy" =>
            LET q == req[r]
            IN  /\ \A i \in 1..Len(q.removes) :
                     q.removes[i].deleted /\ q.removes[i].path = q.before.file
                /\ q.removes # <<>> => q.doc \notin DOMAIN docs
                /\ (q.pc = "done" /\ q.status # 404) =>
                     /\ q.status = 204
                     /\ q.doc \notin DOMAIN docs
                     /\ Len(q.removes) = (IF q.before.file # NoFile THEN 1 ELSE 0)

C5_Witness ==
    \E r \in Reqs :
        /\ req[r].op = "destroy"
        /\ req[r].pc = "done"
        /\ Len(req[r].removes) = 1
        /\ ~req[r].removes[1].ok
        /\ req[r].before.file \in disk
        /\ req[r].doc \notin DOMAIN docs

\* C6: after an update's save the stored extracted text is the extractor's
\* result on the new file when one was uploaded, empty when the file was
\* cleared, and the value it had before when the file was not touched.
C6_TextAfterUpdate ==
    \A r \in Reqs :
        (req[r].op = "update" /\ req[r].saved) =>
            LET q == req[r]
            IN  docs[q.doc].extracted_text =
                    (CASE q.file_arg = "new" -> extract_text_from_file(q.upload).text
                       [] q.file_arg = "clear" -> <<>>
                       [] OTHER -> q.before.extracted_text)

C6_Witness ==
    \E r \in Reqs :
        /\ Updated(r)
        /\ req[r].file_arg = "clear"
        /\ req[r].before.extracted_text # <<>>
        /\ docs[req[r].doc].extracted_text = <<>>

\* C7: every document a request of user U reaches (list, retrieve, update,
\* delete, ask_ai) is owned by U, and no step changes a document's owner.
OwnerOnly ==
    \A r \in Reqs :
        LET q == req[r]
        IN  /\ (q.op = "list" /\ q.pc = "done") =>
                 q.listing = {d \in DOMAIN docs : docs[d].user = q.user}
            /\ (q.op \in {"retrieve", "update", "destroy", "ask"} /\ q.status # 404
                  /\ q.pc # "idle") => q.before.user = q.user
            /\ (q.op \in {"retrieve", "update", "destroy", "ask"} /\ q.pc = "done"
                  /\ q.doc \in DOMAIN docs /\ docs[q.doc].user # q.user) => q.status = 404
            /\ (q.op = "create" /\ q.saved) => docs[q.doc].user = q.user

OwnerKept ==
    \A d \in DOMAIN docs : d \in DOMAIN docs' => docs'[d].user = docs[d].user

C7_OwnerOnly == []OwnerOnly /\ [][OwnerKept]_vars

C7_Witness ==
    \E r \in Reqs :
        /\ req[r].op \in {"update", "destroy", "ask"}
        /\ req[r].status = 404
        /\ req[r].doc \in DOMAIN docs
        /\ docs[req[r].doc].user # req[r].user

\* C8 (as claimed): a response without non-empty direct text whose sub-parts
\* yield no text is answered with the block reason when it carries a block
\* indicator, and with the fixed no-text string only when it carries none.
C8_BlockReasonSurfaced ==
    (xout.done /\ xin.tag = "ai") =>
        LET a == xin.ai
            no_text == (~a.has_text \/ a.text = <<>>)
                       /\ (~a.has_parts \/ Join(PartTexts(a.parts)) = <<>>)
            blocked == a.feedback.present /\ a.feedback.block_reason # ""
        IN  no_text => xout.answer = (IF blocked THEN BlockedAnswer(a.feedback)
                                      ELSE NoTextAnswer)

\* C9: an exception while configuring or calling the AI service is answered
\* with status 500 and the fixed generic message, the response carrying none
\* of the exception's detail; a missing API key is answered with status 500
\* and no AI call.
C9_AiFailureIsGeneric500 ==
    \A r \in Reqs :
        Asked(r) =>
            LET q == req[r]
            IN  /\ q.ai_kind \in {"configure_raises", "generate_raises", "read_raises"} =>
                     /\ q.status = 500
                     /\ q.error = ProcessingError
                     /\ q.extra = <<>> /\ q.answer = <<>>
                     /\ q.ai_detail # <<>>
                /\ q.ai_kind = "no_key" =>
                     /\ q.status = 500
                     /\ q.error = UnavailableError
                     /\ q.extra = <<>> /\ q.answer = <<>>
                     /\ ~q.ai_called
                /\ q.status = 500 => q.ai_kind \notin {"", "response"}

C9_Witness ==
    \E r \in Reqs :
        /\ Asked(r)
        /\ req[r].ai_kind = "generate_raises"
        /\ req[r].ai_called
        /\ req[r].status = 500

ZeroByte(f) == f.body = <<>> /\ f.ext # NoName /\ f.fault = "none"

\* C10 (as claimed): a zero-byte PDF, DOCX, DOC or TXT file extracts to exactly
\* the no-text-content placeholder.
C10_EmptyFileGivesPlaceholder ==
    (xout.done /\ xin.tag = "file" /\ ZeroByte(xin.file)
       /\ BranchOf(xin.file) \in {"pdf", "docx", "doc", "txt"})
        => (~xout.extract.raised /\ xout.extract.text = NoTextMsg)

\* C10 (amended): a zero-byte file read by the DOC or TXT branch extracts to
\* exactly the placeholder; a zero-byte file handed to the PDF or DOCX parser
\* makes the parser raise, and extracts to the extraction-error string.
C10_EmptyFileByBranch ==
    (xout.done /\ xin.tag = "file" /\ ZeroByte(xin.file)) =>
        /\ ~xout.extract.raised
        /\ BranchOf(xin.file) \in {"doc", "txt"} => xout.extract.text = NoTextMsg
        /\ BranchOf(xin.file) \in {"pdf", "docx"} =>
             /\ StartsWith(xout.extract.text, ErrorPrefix \o <<P(":"), P(" ")>>)
             /\ xout.extract.text # NoTextMsg

C10_Witness ==
    /\ xout.done
    /\ xin.tag = "file"
    /\ ZeroByte(xin.file)
    /\ xin.file.ext = "pdf"
    /\ xout.extract.text =
         ErrorPrefix \o <<P(":"), P(" "), P("Cannot read an empty file")>>

\* the string holds nothing but whitespace (the empty string included)
AllSpace(t) == \A i \in 1..Len(t) : IsSpace(t[i])

\* C11: whenever extract_text_from_file returns a string, the string is neither
\* empty nor whitespace-only, it neither starts nor ends with whitespace, and
\* it is exactly the no-text-content placeholder when the branch that read the
\* file produced an empty or whitespace-only text.
C11_ReturnedTextIsTrimmed ==
    (xout.done /\ xin.tag = "file" /\ ~xout.extract.raised) =>
        LET t == xout.extract.text
            b == Branch(xin.file)
        IN  /\ t # <<>>
            /\ ~AllSpace(t)
            /\ ~IsSpace(t[1])
            /\ ~IsSpace(t[Len(t)])
            /\ (~b.exc /\ AllSpace(b.text)) => t = NoTextMsg

\* a text file of blanks only has been extracted to the placeholder
C11_Witness ==
    /\ xout.done
    /\ xin.tag = "file"
    /\ xin.file.ext = "txt"
    /\ xin.file.fault = "none"
    /\ xin.file.body = <<Run(" ", 1)>>
    /\ ~xout.extract.raised
    /\ xout.extract.text = NoTextMsg

\* every stored record that names a file names one that is on the disk
RecordsKeepTheirPayload ==
    \A d \in DOMAIN docs : docs[d].file # NoFile => docs[d].file \in disk

\* a step that takes a payload off the disk takes one no stored record names
RemovesUnreferenced ==
    \A p \in disk \ disk' : \A d \in DOMAIN docs : docs[d].file # p

\* C12: under any interleaving of create, update and delete requests, the
\* payload referenced by every existing record has not been released, and
\* perform_update and perform_destroy only ever remove a payload that no stored
\* record references at the moment of removal.
C12_ReferencedPayloadNeverReleased ==
    []RecordsKeepTheirPayload /\ [][RemovesUnreferenced]_vars

====
